---- MODULE Spec2Model ----
(***************************************************************************)
(* Knowledge indexing and hybrid retrieval engine of the secure email      *)
(* agent: knowledge_indexer.py (KnowledgeIndexer) and retrieval.py         *)
(* (QueryRouter, QueryPreprocessor, HybridRetriever).                      *)
(*                                                                         *)
(* Texts are sequences of segments [t |-> kind, n |-> characters]:         *)
(*   "s"  words ending in sentence punctuation (. ! ?)                     *)
(*   "f"  words not ending in sentence punctuation                         *)
(*   "w"  n whitespace characters beyond the single separator              *)
(*   "g"  a signature trailer ("\n-- \n...", "\nSent from my ...")         *)
(*   "r"  a token a redaction pattern matches (OTP, address, card, secret) *)
(* Adjacent segments other than "w" are separated by one whitespace        *)
(* character.                                                              *)
(***************************************************************************)
EXTENDS Integers, Sequences, FiniteSets, TLC

VARIABLES
    storeMode,   \* what collection.add does with an id that already exists
    fine,        \* indexer.fine_collection: chunk id -> chunk record
    coarse,      \* indexer.coarse_collection: chunk id -> chunk record
    pc,          \* per worker: position inside index_email / index_pdf
    cur,         \* per worker: the locals of the running call
    ret,         \* per worker: the last call that returned
    done,        \* per document: outcome of the last call that returned
    ncalls,      \* calls started so far
    arg,         \* argument of the pure function under check
    res,         \* its result
    query_count, \* HybridRetriever.query_count
    rlast,       \* the last retrieve call and what it returned
    dropped,     \* the collections deleted and not created again
    clr,         \* the last clear_index call and what it returned
    batch,       \* the running batch_index_emails call and its stats
    readers      \* the threads inside retrieve, and the calls that returned

vars == <<storeMode, fine, coarse, pc, cur, ret, done, ncalls, arg, res,
          query_count, rlast, dropped, clr, batch, readers>>

indexVars == <<storeMode, fine, coarse, pc, cur, ret, done, ncalls>>
clearVars == <<dropped, clr>>
pureVars == <<arg, res>>
retrVars == <<query_count, rlast>>

None == "none"

Min(a, b) == IF a <= b THEN a ELSE b
Max(a, b) == IF a >= b THEN a ELSE b

Range(s) == {s[i] : i \in 1..Len(s)}

RECURSIVE SumN(_)
SumN(s) == IF s = <<>> THEN 0 ELSE Head(s).n + SumN(Tail(s))

S(n) == [t |-> "s", n |-> n]
F(n) == [t |-> "f", n |-> n]
W(n) == [t |-> "w", n |-> n]
G(n) == [t |-> "g", n |-> n]
R(n) == [t |-> "r", n |-> n]

\* len(text) of a raw text: every segment's characters plus one separator
\* between neighbouring segments that are not whitespace runs.
RawLen(text) ==
    LET words == SelectSeq(text, LAMBDA x : x.t # "w")
    IN  SumN(text) + Max(0, Len(words) - 1)

\* len(text) of a cleaned text (no "w", "g", "r" segments left).
TextLen(text) == SumN(text) + Max(0, Len(text) - 1)

FINE_MIN == 350
FINE_MAX == 700
COARSE_MIN == 1500
COARSE_MAX == 2500
REDACTED_LEN == 10
SHORT_EMAIL == 50
SHORT_PDF == 100

\* text before the first signature trailer (re.sub(r'\n--\s*\n.*$', '', ...))
RECURSIVE BeforeSignature(_)
BeforeSignature(text) ==
    IF text = <<>> \/ Head(text).t = "g" THEN <<>>
    ELSE <<Head(text)>> \o BeforeSignature(Tail(text))

Redact(x) == IF x.t = "r" THEN F(REDACTED_LEN) ELSE x

RECURSIVE RedactAll(_)
RedactAll(text) ==
    IF text = <<>> THEN <<>>
    ELSE <<Redact(Head(text))>> \o RedactAll(Tail(text))

\* KnowledgeIndexer._clean_text
clean_text(text) ==
    IF text = <<>> THEN <<>>
    ELSE SelectSeq(RedactAll(BeforeSignature(text)), LAMBDA x : x.t # "w")

\* re.split(r'(?<=[.!?])\s+', text): the lengths of the sentences of a
\* cleaned text; a sentence is a run of "f" segments closed by an "s"
\* segment (or by the end of the text).  "" splits into one empty sentence.
RECURSIVE SplitSentences(_, _, _)
SplitSentences(text, open, n) ==
    IF text = <<>> THEN (IF open THEN <<n>> ELSE <<>>)
    ELSE LET x == Head(text)
             m == IF open THEN n + 1 + x.n ELSE x.n
         IN  IF x.t = "s" THEN <<m>> \o SplitSentences(Tail(text), FALSE, 0)
             ELSE SplitSentences(Tail(text), TRUE, m)

Sentences(text) == IF text = <<>> THEN <<0>> ELSE SplitSentences(text, FALSE, 0)

ChunkMin(chunk_type) == IF chunk_type = "fine" THEN FINE_MIN ELSE COARSE_MIN
ChunkMax(chunk_type) == IF chunk_type = "fine" THEN FINE_MAX ELSE COARSE_MAX

\* The loop of _chunk_text from sentence i on.  A chunk is
\* [n |-> its length, sents |-> the indices of the sentences in it];
\* current is current_chunk, "" when current.n = 0.  Both callers pass a
\* cleaned text, whose sentences neither start nor end with whitespace, so
\* the strip() of an appended chunk removes nothing.
EmptyChunk == [n |-> 0, sents |-> <<>>]

\* a loop that starts the next chunk empty, without the sentence that did not fit
RECURSIVE ChunkLoop_DropsSentence(_, _, _, _, _, _)
ChunkLoop_DropsSentence(sentences, i, chunks, current, min_size, max_size) ==
    IF i > Len(sentences)
    THEN IF current.n > 0 /\ current.n >= min_size
         THEN Append(chunks, current) ELSE chunks
    ELSE LET sn == sentences[i]
         IN  IF current.n + sn > max_size /\ current.n >= min_size
             THEN ChunkLoop_DropsSentence(sentences, i + 1,
                            IF current.n > 0 THEN Append(chunks, current) ELSE chunks,
                            EmptyChunk, min_size, max_size)
             ELSE ChunkLoop_DropsSentence(sentences, i + 1, chunks,
                            [n |-> IF current.n > 0 THEN current.n + 1 + sn ELSE sn,
                             sents |-> Append(current.sents, i)],
                            min_size, max_size)

RECURSIVE ChunkLoop(_, _, _, _, _, _)
ChunkLoop(sentences, i, chunks, current, min_size, max_size) ==
    IF i > Len(sentences)
    THEN IF current.n > 0 /\ current.n >= min_size
         THEN Append(chunks, current) ELSE chunks
    ELSE LET sn == sentences[i]
         IN  IF current.n + sn > max_size /\ current.n >= min_size
             THEN ChunkLoop(sentences, i + 1,
                            IF current.n > 0 THEN Append(chunks, current) ELSE chunks,
                            [n |-> sn, sents |-> <<i>>], min_size, max_size)
             ELSE ChunkLoop(sentences, i + 1, chunks,
                            [n |-> IF current.n > 0 THEN current.n + 1 + sn ELSE sn,
                             sents |-> Append(current.sents, i)],
                            min_size, max_size)

\* _chunk_text without the minimum on the trailing buffer and on the split
chunk_text_NoMin(text, chunk_type) ==
    ChunkLoop(Sentences(text), 1, <<>>, EmptyChunk, 0, ChunkMax(chunk_type))

\* KnowledgeIndexer._chunk_text
chunk_text(text, chunk_type) ==
    ChunkLoop(Sentences(text), 1, <<>>, EmptyChunk,
              ChunkMin(chunk_type), ChunkMax(chunk_type))

(***************************************************************************)
(* Documents handed to the indexer.  Identifiers (message ids, file paths) *)
(* are texts too, so that the hash input can be built by concatenation.    *)
(***************************************************************************)
Id(name, n) == <<[t |-> "id", n |-> n, c |-> name]>>
Colon == [t |-> ":", n |-> 1]

Email(message_id, subject, sender, date_received, body_text) ==
    [kind |-> "email", id |-> message_id, subject |-> subject, sender |-> sender,
     date |-> date_received, text |-> body_text, exists |-> TRUE]

\* index_pdf(pdf_path): source_title is None
Pdf(pdf_path, exists, text_content) ==
    [kind |-> "pdf", id |-> pdf_path, subject |-> <<>>, sender |-> <<>>,
     date |-> <<>>, text |-> text_content, exists |-> exists, title |-> ""]

\* index_pdf(pdf_path, source_title)
Titled(doc, source_title) == [doc EXCEPT !.title = source_title]

Letters104 ==
    "abcdefghijklmnopqrstuvwxyzabcdefghijklmnopqrstuvwxyzabcdefghijklmnopqrstuvwxyzabcdefghijklmnopqrstuvwxyz"
LongPath == "/docs/" \o Letters104 \o ".pdf"

DocNames == {"e_short", "e_note", "e_600", "e_600b", "e_two", "e_big",
             "p_missing", "p_tiny", "p_blank", "p_doc", "p_long", "p_titled",
             "e_twos", "e_twoa"}

\* the documents that differ from p_doc in the title only, and the earlier
\* versions of e_two: indexed in SpecTitle and SpecVersions
SideDocs == {"p_long", "p_titled", "e_twos", "e_twoa"}

Doc(d) ==
    CASE d = "e_short"   -> Email(Id("m0", 2), <<F(2)>>, <<>>, <<>>, <<F(10)>>)
      [] d = "e_note"    -> Email(Id("m4", 2), <<F(5)>>, <<R(12)>>, <<F(10)>>,
                                  <<S(120), W(3), G(40)>>)
      [] d = "e_600"     -> Email(Id("m1", 2), <<F(20)>>, <<R(15)>>, <<F(10)>>,
                                  <<S(300), S(299)>>)
      [] d = "e_600b"    -> Email(Id("m1", 2), <<S(400)>>, <<R(15)>>, <<F(10)>>,
                                  <<S(300), S(299)>>)
      [] d = "e_two"     -> Email(Id("m2", 2), <<F(20)>>, <<R(15)>>, <<F(10)>>,
                                  <<S(600), S(600), S(300)>>)
      [] d = "e_twos"    -> Email(Id("m2", 2), <<F(20)>>, <<R(15)>>, <<F(10)>>,
                                  <<S(600)>>)
      [] d = "e_twoa"    -> Email(Id("m2", 2), <<F(20)>>, <<R(15)>>, <<F(10)>>,
                                  <<S(600), S(600)>>)
      [] d = "e_big"     -> Email(Id("m3", 2), <<F(20)>>, <<R(15)>>, <<F(10)>>,
                                  <<S(500), S(500), S(500), S(300)>>)
      [] d = "p_missing" -> Pdf(Id("/a.pdf", 6), FALSE, <<>>)
      [] d = "p_tiny"    -> Pdf(Id("/b.pdf", 6), TRUE, <<S(40), W(1)>>)
      [] d = "p_blank"   -> Pdf(Id("/c.pdf", 6), TRUE, <<F(30), W(90), G(20), W(1)>>)
      [] d = "p_doc"     -> Pdf(Id("/d.pdf", 6), TRUE,
                                <<S(600), S(600), W(1), S(500), W(1)>>)
      [] d = "p_long"    -> Pdf(Id(LongPath, 114), TRUE,
                                <<S(600), S(600), W(1), S(500), W(1)>>)
      [] d = "p_titled"  -> Titled(Pdf(Id("/e.pdf", 6), TRUE,
                                       <<S(600), S(600), W(1), S(500), W(1)>>),
                                   Letters104)

\* index_email: f"Subject: {subject}\nFrom: {sender}\nDate: {date_received}\n\n{body}"
full_content(doc) ==
    <<F(8)>> \o doc.subject \o <<F(5)>> \o doc.sender \o <<F(5)>> \o doc.date
        \o <<W(1)>> \o doc.text

\* cleaned_content of index_email / index_pdf
cleaned_content(doc) ==
    IF doc.kind = "email" THEN clean_text(full_content(doc)) ELSE clean_text(doc.text)

\* KnowledgeIndexer._get_document_hash: md5 of f"{source_id}:{content}"; md5 is
\* taken to be free of collisions, so the hash is its input.
get_document_hash(content, source_id) == source_id \o <<Colon>> \o content

doc_hash(doc) == get_document_hash(cleaned_content(doc), doc.id)

\* index_email without the short-email return
IsShortEmail_Never(doc) == FALSE

\* index_email line 228: skip very short emails
IsShortEmail(doc) == TextLen(cleaned_content(doc)) < SHORT_EMAIL

\* index_pdf lines 310-318: missing file, or no / insufficient extracted text
IsRejectedPdf(doc) == ~doc.exists \/ doc.text = <<>> \/ RawLen(doc.text) < SHORT_PDF

fine_chunks(doc) == chunk_text(cleaned_content(doc), "fine")
coarse_chunks(doc) == chunk_text(cleaned_content(doc), "coarse")

\* chunk ids that do not name the document
ChunkId_NoKey(doc, chunk_type, i) ==
    [src |-> doc.kind, ct |-> chunk_type, key |-> <<>>, i |-> i]

\* f"email_{chunk_type}_{message_id}_{i}" and f"pdf_{chunk_type}_{doc_hash}_{i}"
ChunkId(doc, chunk_type, i) ==
    [src |-> doc.kind, ct |-> chunk_type,
     key |-> IF doc.kind = "email" THEN doc.id ELSE doc_hash(doc), i |-> i]

ChunksOf(doc, chunk_type) ==
    IF chunk_type = "fine" THEN fine_chunks(doc) ELSE coarse_chunks(doc)

TITLE_MAX == 100

\* os.path.basename(path): what follows the last "/"
RECURSIVE basename(_)
basename(path) ==
    IF \A i \in 1..Len(path) : SubSeq(path, i, i) # "/" THEN path
    ELSE basename(SubSeq(path, 2, Len(path)))

\* the length of the "source_title" of a chunk's metadata: subject[:100] in
\* index_email, `source_title or os.path.basename(pdf_path)` in index_pdf
SourceTitleLen(doc) ==
    IF doc.kind = "email" THEN Min(RawLen(doc.subject), TITLE_MAX)
    ELSE IF doc.title # "" THEN Len(doc.title)
    ELSE Len(basename(doc.id[1].c))

\* the ids, documents and metadatas of one collection.add call
NewChunks(doc, chunk_type) ==
    LET chunks == ChunksOf(doc, chunk_type)
        title == SourceTitleLen(doc)
    IN  [id \in {ChunkId(doc, chunk_type, i - 1) : i \in 1..Len(chunks)} |->
            [source_type |-> doc.kind, ref |-> doc.id, source_title |-> title,
             ref_key |-> IF doc.kind = "email" THEN "msg_id" ELSE "file_path",
             chunk_type |-> chunk_type,
             chunk_index |-> id.i, doc_hash |-> doc_hash(doc),
             n |-> chunks[id.i + 1].n]]

\* a probe that never finds the document
ProbeFound_Never(coll, doc) == FALSE

\* collection.get(where={"doc_hash": doc_hash}, limit=1)['ids'] is not empty
ProbeFound(coll, doc) == \E id \in DOMAIN coll : coll[id].doc_hash = doc_hash(doc)

\* collection.add raises when storeMode = "reject" and an id exists already
AddRaises(mode, coll, new) == mode = "reject" /\ (DOMAIN new \cap DOMAIN coll) # {}

\* an add that replaces the chunks whose ids are present already
AddTo_Overwrite(coll, new) ==
    [id \in DOMAIN coll \cup DOMAIN new |-> IF id \in DOMAIN new THEN new[id] ELSE coll[id]]

\* collection.add: ids already present are left as they are
AddTo(coll, new) ==
    [id \in DOMAIN coll \cup DOMAIN new |-> IF id \in DOMAIN coll THEN coll[id] ELSE new[id]]

Added(coll, new) == Cardinality(DOMAIN new \ DOMAIN coll)

(***************************************************************************)
(* index_email / index_pdf, one step per collection operation.             *)
(***************************************************************************)
Workers == {"w1", "w2"}
MaxCalls == 3

NoCall == [doc |-> None]

\* the handle self.fine_collection / self.coarse_collection refers to a
\* collection the store still has; an operation through a handle of a
\* deleted collection raises
Live(name) == name \notin dropped

\* nothing of this source is in the index yet
Fresh(doc) ==
    /\ \A id \in DOMAIN fine : fine[id].ref # doc.id
    /\ \A id \in DOMAIN coarse : coarse[id].ref # doc.id

\* the call of worker w returns `result`
Return(w, call, result, faulted) ==
    /\ pc' = [pc EXCEPT ![w] = "idle"]
    /\ cur' = [cur EXCEPT ![w] = NoCall]
    /\ ret' = [ret EXCEPT ![w] = [doc |-> call.doc, result |-> result,
                                  wf |-> call.wf, wc |-> call.wc,
                                  faulted |-> faulted, prev |-> call.prev,
                                  fresh |-> call.fresh, no |-> call.no,
                                  par |-> call.par, passed |-> call.passed]]
    /\ done' = [done EXCEPT ![call.doc] =
                   IF result THEN "ok"
                   ELSE IF call.wf > 0 /\ coarse_chunks(Doc(call.doc)) # <<>> /\ call.wc = 0
                        THEN "partial" ELSE "failed"]

\* index_email lines 218-232, index_pdf lines 310-324: everything before the probe
StartIndex(w, d) ==
    /\ pc[w] = "idle"
    /\ ncalls < MaxCalls
    /\ ncalls' = ncalls + 1
    /\ LET call == [doc |-> d, wf |-> 0, wc |-> 0, prev |-> done[d],
                    fresh |-> Fresh(Doc(d)), no |-> ncalls + 1,
                    par |-> \E v \in Workers \ {w} : pc[v] # "idle",
                    passed |-> FALSE]
       IN  IF Doc(d).kind = "email" /\ IsShortEmail(Doc(d))
           THEN Return(w, call, TRUE, FALSE)
           ELSE IF Doc(d).kind = "pdf" /\ IsRejectedPdf(Doc(d))
           THEN Return(w, call, FALSE, FALSE)
           ELSE /\ pc' = [pc EXCEPT ![w] = "probe"]
                /\ cur' = [cur EXCEPT ![w] = call]
                /\ UNCHANGED <<ret, done>>
    /\ UNCHANGED <<storeMode, fine, coarse>>

\* lines 234-245 / 326-337: the dedup probe on the fine collection, then chunking
Probe(w) ==
    /\ pc[w] = "probe"
    /\ Live("fine")
    /\ IF ProbeFound(fine, Doc(cur[w].doc))
       THEN Return(w, cur[w], TRUE, FALSE)
       ELSE /\ pc' = [pc EXCEPT ![w] = "fine"]
            /\ cur' = [cur EXCEPT ![w].passed = TRUE]
            /\ UNCHANGED <<ret, done>>
    /\ UNCHANGED <<storeMode, fine, coarse, ncalls>>

\* the chunks of one add under ids that name the calling thread
PerCall(new, w) ==
    [id \in {[x EXCEPT !.src = w] : x \in DOMAIN new} |->
        new[CHOOSE x \in DOMAIN new : [x EXCEPT !.src = w] = id]]

\* a fine write whose chunk ids are made per call, not from the document
WriteFine_PerCallIds(w) ==
    /\ pc[w] = "fine"
    /\ LET doc == Doc(cur[w].doc)
           new == PerCall(NewChunks(doc, "fine"), w)
       IN  IF fine_chunks(doc) = <<>>
           THEN /\ pc' = [pc EXCEPT ![w] = "coarse"]
                /\ UNCHANGED <<fine, cur, ret, done>>
           ELSE /\ fine' = AddTo(fine, new)
                /\ pc' = [pc EXCEPT ![w] = "coarse"]
                /\ cur' = [cur EXCEPT ![w].wf = Added(fine, new)]
                /\ UNCHANGED <<ret, done>>
    /\ UNCHANGED <<storeMode, coarse, ncalls>>

\* lines 247-267 / 339-358: embed and add the fine chunks
WriteFine(w) ==
    /\ pc[w] = "fine"
    /\ LET doc == Doc(cur[w].doc)
           new == NewChunks(doc, "fine")
       IN  IF fine_chunks(doc) = <<>>
           THEN /\ pc' = [pc EXCEPT ![w] = "coarse"]
                /\ UNCHANGED <<fine, cur, ret, done>>
           ELSE IF ~Live("fine")
           THEN /\ Return(w, cur[w], FALSE, TRUE)
                /\ UNCHANGED fine
           ELSE IF AddRaises(storeMode, fine, new)
           THEN /\ Return(w, cur[w], FALSE, FALSE)
                /\ UNCHANGED fine
           ELSE /\ fine' = AddTo(fine, new)
                /\ pc' = [pc EXCEPT ![w] = "coarse"]
                /\ cur' = [cur EXCEPT ![w].wf = Added(fine, new)]
                /\ UNCHANGED <<ret, done>>
    /\ UNCHANGED <<storeMode, coarse, ncalls>>

\* lines 269-292 / 360-382: embed and add the coarse chunks, return True
WriteCoarse(w) ==
    /\ pc[w] = "coarse"
    /\ LET doc == Doc(cur[w].doc)
           new == NewChunks(doc, "coarse")
       IN  IF coarse_chunks(doc) = <<>>
           THEN /\ Return(w, cur[w], TRUE, FALSE)
                /\ UNCHANGED coarse
           ELSE IF ~Live("coarse")
           THEN /\ Return(w, cur[w], FALSE, TRUE)
                /\ UNCHANGED coarse
           ELSE IF AddRaises(storeMode, coarse, new)
           THEN /\ Return(w, cur[w], FALSE, FALSE)
                /\ UNCHANGED coarse
           ELSE /\ coarse' = AddTo(coarse, new)
                /\ Return(w, [cur[w] EXCEPT !.wc = Added(coarse, new)], TRUE, FALSE)
    /\ UNCHANGED <<storeMode, fine, ncalls>>

\* the operation of the current step can raise
CanRaise(w) ==
    \/ pc[w] = "probe"
    \/ pc[w] = "fine" /\ fine_chunks(Doc(cur[w].doc)) # <<>>
    \/ pc[w] = "coarse" /\ coarse_chunks(Doc(cur[w].doc)) # <<>>

\* an except clause that reports success
Fault_ReturnsTrue(w) ==
    /\ CanRaise(w)
    /\ Return(w, cur[w], TRUE, TRUE)
    /\ UNCHANGED <<storeMode, fine, coarse, ncalls>>

\* lines 294-296 / 384-386: the embedding model or the collection raises;
\* the except clause logs and returns False
Fault(w) ==
    /\ CanRaise(w)
    /\ Return(w, cur[w], FALSE, TRUE)
    /\ UNCHANGED <<storeMode, fine, coarse, ncalls>>

EmptyColl == [id \in {} |-> None]

NoArg == [op |-> None]
NoClear == [no |-> 0, result |-> FALSE, fail_at |-> 0, had |-> {}]
NoBatch == [state |-> None]

\* the threads that call retrieve on the one HybridRetriever
Callers == {"r1", "r2"}

\* per caller: pc is its place in retrieve, seen the value of
\* self.query_count it loaded; last is what the last call to return
\* returned, returned the number of calls that have returned
NoReaders == [pc |-> [c \in Callers |-> "idle"], seen |-> [c \in Callers |-> 0],
              started |-> 0, returned |-> 0, last |-> None]

\* the steps of clear_index that can raise: delete_collection of the fine
\* and of the coarse collection, get_or_create_collection of the fine and of
\* the coarse collection
CLEAR_STEPS == 4

\* clear_index that reports success and leaves the store as it is
ClearIndex_Noop(w, fail_at) ==
    /\ pc[w] = "idle"
    /\ ncalls < MaxCalls
    /\ ncalls' = ncalls + 1
    /\ clr' = [no |-> ncalls + 1, result |-> TRUE, fail_at |-> 0,
               had |-> {d \in DocNames : done[d] = "ok"}]
    /\ UNCHANGED <<storeMode, fine, coarse, pc, cur, ret, done, dropped>>

\* KnowledgeIndexer.clear_index, lines 486-496, with _init_collections, lines
\* 103-117.  fail_at is the first step at which the store raises (0: none);
\* deleting a collection that is not there raises.  The except clause
\* returns False and leaves what the steps before did.
ClearIndex(w, fail_at) ==
    /\ pc[w] = "idle"
    /\ ncalls < MaxCalls
    /\ ncalls' = ncalls + 1
    /\ LET stop == IF fail_at = 1 \/ ~Live("fine") THEN 1
                   ELSE IF fail_at = 2 \/ ~Live("coarse") THEN 2
                   ELSE fail_at
       IN  /\ fine' = IF stop = 1 THEN fine ELSE EmptyColl
           /\ coarse' = IF stop \in {1, 2} THEN coarse ELSE EmptyColl
           /\ dropped' = CASE stop = 0 -> {}
                            [] stop = 1 -> dropped
                            [] stop = 2 -> dropped \cup {"fine"}
                            [] stop = 3 -> {"fine", "coarse"}
                            [] stop = 4 -> {"coarse"}
           /\ done' = IF stop = 1 THEN done ELSE [d \in DocNames |-> "none"]
           /\ clr' = [no |-> ncalls + 1, result |-> stop = 0, fail_at |-> stop,
                      had |-> {d \in DocNames : done[d] = "ok"}]
    /\ UNCHANGED <<storeMode, pc, cur, ret>>

Init ==
    /\ storeMode \in {"reject", "skip"}
    /\ fine = EmptyColl
    /\ coarse = EmptyColl
    /\ pc = [w \in Workers |-> "idle"]
    /\ cur = [w \in Workers |-> NoCall]
    /\ ret = [w \in Workers |-> NoCall]
    /\ done = [d \in DocNames |-> "none"]
    /\ ncalls = 0
    /\ arg = NoArg /\ res = <<>>
    /\ query_count = 0 /\ rlast = NoArg
    /\ dropped = {} /\ clr = NoClear /\ batch = NoBatch /\ readers = NoReaders

\* one caller: the calls follow one another
Next ==
    \/ \E d \in DocNames \ SideDocs : StartIndex("w1", d)
                               /\ UNCHANGED <<pureVars, retrVars, clearVars, batch, readers>>
    \/ Probe("w1") /\ UNCHANGED <<pureVars, retrVars, clearVars, batch, readers>>
    \/ WriteFine("w1") /\ UNCHANGED <<pureVars, retrVars, clearVars, batch, readers>>
    \/ WriteCoarse("w1") /\ UNCHANGED <<pureVars, retrVars, clearVars, batch, readers>>
    \/ Fault("w1") /\ UNCHANGED <<pureVars, retrVars, clearVars, batch, readers>>
    \/ \E fail_at \in 0..CLEAR_STEPS :
           ClearIndex("w1", fail_at) /\ UNCHANGED <<pureVars, retrVars, batch, readers>>

Spec == Init /\ [][Next]_vars

\* get_index_stats()["email_chunks"] and ["pdf_chunks"]
email_chunks == Cardinality({id \in DOMAIN fine : fine[id].source_type = "email"})
pdf_chunks == Cardinality({id \in DOMAIN fine : fine[id].source_type = "pdf"})

Returned(w) == ret[w].doc # None
CleanLen(d) == TextLen(cleaned_content(Doc(d)))

C2_RetryWritesCoarse ==
    \A w \in Workers :
        /\ (Returned(w) /\ done[ret[w].doc] = "partial" => ~ret[w].result)
        /\ (Returned(w) /\ ret[w].prev = "partial" /\ ~ret[w].faulted
            => ret[w].wc > 0 /\ ret[w].wf = 0)

C6_Body600OneFine ==
    \A w \in Workers :
        (Returned(w) /\ Doc(ret[w].doc).kind = "email"
         /\ RawLen(Doc(ret[w].doc).text) = 600 /\ ret[w].fresh /\ ~ret[w].faulted)
        => ret[w].wf = 1 /\ ret[w].wc = 0

(***************************************************************************)
(* C6 as amended: the first indexing of an email whose cleaned full        *)
(* content (header lines and body) is 350 to 700 characters long writes    *)
(* exactly 1 fine chunk and 0 coarse chunks and returns true, when nothing *)
(* raises.                                                                 *)
(***************************************************************************)
C6_Content350To700OneFine ==
    \A w \in Workers :
        (Returned(w) /\ Doc(ret[w].doc).kind = "email"
         /\ CleanLen(ret[w].doc) >= FINE_MIN /\ CleanLen(ret[w].doc) <= FINE_MAX
         /\ ret[w].fresh /\ ~ret[w].faulted)
        => ret[w].result /\ ret[w].wf = 1 /\ ret[w].wc = 0

\* the email with a 600-character body and short header fields was indexed
C6_Witness ==
    \E w \in Workers :
        /\ Returned(w) /\ Doc(ret[w].doc).kind = "email"
        /\ RawLen(Doc(ret[w].doc).text) = 600
        /\ CleanLen(ret[w].doc) >= FINE_MIN /\ CleanLen(ret[w].doc) <= FINE_MAX
        /\ ret[w].fresh /\ ret[w].result /\ ret[w].wf = 1 /\ ret[w].wc = 0
        /\ Cardinality(DOMAIN fine) = 1

(***************************************************************************)
(* C19.  clear_index resets the index: when clear_index has returned true  *)
(* both collections are empty, and the next call, if it indexes a document *)
(* that was indexed before the clear, writes all its chunks again and      *)
(* returns true (nothing raising).                                         *)
(***************************************************************************)
C19_ClearResets ==
    /\ (clr.result /\ clr.no = ncalls)
       => fine = EmptyColl /\ coarse = EmptyColl /\ dropped = {}
    /\ \A w \in Workers :
          (Returned(w) /\ clr.result /\ ret[w].no = clr.no + 1
           /\ ret[w].doc \in clr.had /\ ~ret[w].faulted)
          => /\ ret[w].result
             /\ ret[w].wf = Len(fine_chunks(Doc(ret[w].doc)))
             /\ ret[w].wc = Len(coarse_chunks(Doc(ret[w].doc)))

\* a document with fine and coarse chunks, indexed, cleared and indexed again
C19_Witness ==
    \E w \in Workers :
        /\ Returned(w) /\ clr.result /\ ret[w].no = clr.no + 1
        /\ ret[w].doc \in clr.had /\ ret[w].result
        /\ ret[w].wf > 0 /\ ret[w].wc > 0

(***************************************************************************)
(* C28.  clear_index is all-or-nothing: a clear_index call that returns    *)
(* false leaves both collections with exactly the chunks they held before  *)
(* the call, and usable by later index_email and retrieve calls.           *)
(***************************************************************************)
C28_ClearAllOrNothing ==
    [][(clr'.no # clr.no /\ ~clr'.result)
       => fine' = fine /\ coarse' = coarse /\ dropped' = dropped]_vars

(***************************************************************************)
(* _chunk_text on its own: every cleaned text of up to MaxSegs segments.   *)
(***************************************************************************)
MaxSegs == 3
SegLens == {100, 300, 400, 800, 1600}
Segs == {S(n) : n \in SegLens} \cup {F(n) : n \in SegLens}
CleanTexts == UNION {[1..k -> Segs] : k \in 0..MaxSegs}

ChunkCall ==
    /\ arg.op = "chunk"
    /\ res = <<>>
    /\ res' = <<chunk_text(arg.text, arg.chunk_type)>>
    /\ UNCHANGED arg

InitChunk ==
    /\ storeMode = "skip" /\ fine = EmptyColl /\ coarse = EmptyColl
    /\ pc = [w \in Workers |-> "idle"] /\ cur = [w \in Workers |-> NoCall]
    /\ ret = [w \in Workers |-> NoCall] /\ done = [d \in DocNames |-> "none"]
    /\ ncalls = 0 /\ query_count = 0 /\ rlast = NoArg
    /\ dropped = {} /\ clr = NoClear /\ batch = NoBatch /\ readers = NoReaders
    /\ arg \in [op : {"chunk"}, text : CleanTexts, chunk_type : {"fine", "coarse"}]
    /\ res = <<>>

NextChunk == ChunkCall /\ UNCHANGED <<indexVars, retrVars, clearVars, batch, readers>>

SpecChunk == InitChunk /\ [][NextChunk]_vars

Chunked == arg.op = "chunk" /\ res # <<>>

(***************************************************************************)
(* C3.  Chunk upper bound: every chunk _chunk_text returns is at most      *)
(* max_size long (700 fine, 2500 coarse).                                  *)
(***************************************************************************)
C3_ChunkUpperBound ==
    Chunked => \A i \in 1..Len(res[1]) : res[1][i].n <= ChunkMax(arg.chunk_type)

(***************************************************************************)
(* C4.  Chunk lower bound: no chunk _chunk_text returns is shorter than    *)
(* min_size (350 fine, 1500 coarse), and a text shorter than min_size      *)
(* yields no chunk.                                                        *)
(***************************************************************************)
C4_ChunkLowerBound ==
    Chunked =>
        /\ \A i \in 1..Len(res[1]) : res[1][i].n >= ChunkMin(arg.chunk_type)
        /\ TextLen(arg.text) < ChunkMin(arg.chunk_type) => res[1] = <<>>

\* a text whose tail was dropped after a chunk was emitted
C4_Witness ==
    /\ Chunked
    /\ Len(res[1]) >= 1
    /\ res[1][Len(res[1])].sents[Len(res[1][Len(res[1])].sents)] < Len(Sentences(arg.text))

(***************************************************************************)
(* retrieval.py: QueryRouter.  Queries are strings.                        *)
(***************************************************************************)
UpperCase == "ABCDEFGHIJKLMNOPQRSTUVWXYZ"
LowerCase == "abcdefghijklmnopqrstuvwxyz"
Digits == "0123456789_"

Char(str, i) == SubSeq(str, i, i)
Chars(str) == {Char(str, i) : i \in 1..Len(str)}

UpperChars == Chars(UpperCase)
WordChars == Chars(UpperCase) \cup Chars(LowerCase) \cup Chars(Digits)
ToLower == [c \in UpperChars |->
              Char(LowerCase, CHOOSE i \in 1..Len(UpperCase) : Char(UpperCase, i) = c)]

LowerChar(c) == IF c \in UpperChars THEN ToLower[c] ELSE c

\* str.lower()
RECURSIVE Lower(_)
Lower(str) ==
    IF str = "" THEN "" ELSE LowerChar(Char(str, 1)) \o Lower(SubSeq(str, 2, Len(str)))

\* \w
IsWordChar(c) == c \in WordChars

\* re.findall(r'\b\w+\b', str): the maximal runs of word characters, in order
RECURSIVE FindWords(_, _, _)
FindWords(str, i, word) ==
    IF i > Len(str) THEN (IF word = "" THEN <<>> ELSE <<word>>)
    ELSE IF IsWordChar(Char(str, i)) THEN FindWords(str, i + 1, word \o Char(str, i))
    ELSE (IF word = "" THEN <<>> ELSE <<word>>) \o FindWords(str, i + 1, "")

\* `a in b` for strings
Contains(b, a) == \E i \in 1..(Len(b) - Len(a) + 1) : SubSeq(b, i, i + Len(a) - 1) = a

fine_keywords ==
    {"policy", "policies", "document", "documents", "doc", "docs",
     "contract", "contracts", "agreement", "agreements",
     "pdf", "attachment", "attachments", "file", "files",
     "procedure", "procedures", "specification", "specifications",
     "requirement", "requirements", "detail", "details",
     "clause", "clauses", "section", "sections"}

coarse_keywords ==
    {"timeline", "timelines", "summary", "summaries", "overview",
     "update", "updates", "progress", "status", "history",
     "background", "context", "discussion", "conversation",
     "thread", "threads", "overall", "general", "broad"}

context_question_words ==
    {"what", "why", "how", "when", "where", "who",
     "explain", "describe", "tell", "show"}

\* confidences are in tenths: 6 is 0.6, 9 is 0.9
Decide(fine_score, coarse_score, has_context_question) ==
    IF fine_score > coarse_score THEN <<"fine", Min(9, 6 + fine_score)>>
    ELSE IF coarse_score > fine_score THEN <<"coarse", Min(9, 6 + coarse_score)>>
    ELSE IF has_context_question THEN <<"coarse", 7>>
    ELSE <<"fine", 6>>

\* route_query scoring every occurrence of a keyword instead of every distinct token
route_query_PerOccurrence(query) ==
    LET query_lower == Lower(query)
        words == FindWords(query_lower, 1, "")
    IN  Decide(Len(SelectSeq(words, LAMBDA x : x \in fine_keywords)),
               Len(SelectSeq(words, LAMBDA x : x \in coarse_keywords)),
               \E word \in context_question_words : Contains(query_lower, word))

\* QueryRouter.route_query
route_query(query) ==
    LET query_lower == Lower(query)
        words == Range(FindWords(query_lower, 1, ""))
    IN  Decide(Cardinality(words \cap fine_keywords),
               Cardinality(words \cap coarse_keywords),
               \E word \in context_question_words : Contains(query_lower, word))

RECURSIVE Join(_)
Join(ws) ==
    IF ws = <<>> THEN ""
    ELSE IF Len(ws) = 1 THEN ws[1] ELSE ws[1] \o " " \o Join(Tail(ws))

MaxQueryWords == 4
QueryWords == {"What", "showcase", "Contract", "clause", "policy", "file,",
               "timeline?", "summary", "termination"}
Queries == {Join(ws) : ws \in UNION {[1..k -> QueryWords] : k \in 0..MaxQueryWords}}

RouteCall ==
    /\ arg.op = "route"
    /\ res = <<>>
    /\ res' = <<route_query(arg.query)>>
    /\ UNCHANGED arg

InitRoute ==
    /\ storeMode = "skip" /\ fine = EmptyColl /\ coarse = EmptyColl
    /\ pc = [w \in Workers |-> "idle"] /\ cur = [w \in Workers |-> NoCall]
    /\ ret = [w \in Workers |-> NoCall] /\ done = [d \in DocNames |-> "none"]
    /\ ncalls = 0 /\ query_count = 0 /\ rlast = NoArg
    /\ dropped = {} /\ clr = NoClear /\ batch = NoBatch /\ readers = NoReaders
    /\ arg \in [op : {"route"}, query : Queries]
    /\ res = <<>>

NextRoute == RouteCall /\ UNCHANGED <<indexVars, retrVars, clearVars, batch, readers>>

SpecRoute == InitRoute /\ [][NextRoute]_vars

Routed == arg.op = "route" /\ res # <<>>

\* the number of distinct tokens of the query that are in a keyword set
DistinctIn(query, keywords) ==
    LET tokens == FindWords(Lower(query), 1, "")
    IN  Cardinality({tokens[i] : i \in {j \in 1..Len(tokens) : tokens[j] \in keywords}})

(***************************************************************************)
(* C10.  Router rule: with fine_score and coarse_score the numbers of      *)
(* distinct query tokens in the fine and coarse keyword sets, route_query  *)
(* returns (fine, min(0.9, 0.6 + 0.1*fine_score)) when fine_score is the   *)
(* larger and (coarse, min(0.9, 0.6 + 0.1*coarse_score)) when coarse_score *)
(* is; the confidence is always within [0.6, 0.9].  route_query reads the  *)
(* query and three fixed sets only, so equal queries give equal pairs.     *)
(***************************************************************************)
C10_RouterRule ==
    Routed =>
        LET fs == DistinctIn(arg.query, fine_keywords)
            cs == DistinctIn(arg.query, coarse_keywords)
        IN  /\ fs > cs => res[1] = <<"fine", Min(9, 6 + fs)>>
            /\ cs > fs => res[1] = <<"coarse", Min(9, 6 + cs)>>
            /\ res[1][2] >= 6 /\ res[1][2] <= 9

\* a query with four distinct fine keywords: the cap of 0.9 is met
C10_Witness ==
    /\ Routed
    /\ DistinctIn(arg.query, fine_keywords) = 4
    /\ res[1] = <<"fine", 9>>

\* one of the query's tokens is a question word
HasQuestionWord(query) ==
    \E w \in Range(FindWords(Lower(query), 1, "")) : w \in context_question_words

(***************************************************************************)
(* C11.  Router tie rule: when fine_score equals coarse_score, route_query *)
(* returns (coarse, 0.7) if one of the query's words is a question word    *)
(* and (fine, 0.6) if none of the query's words is a question word.        *)
(***************************************************************************)
C11_TieRule ==
    (Routed /\ DistinctIn(arg.query, fine_keywords) = DistinctIn(arg.query, coarse_keywords))
    => res[1] = IF HasQuestionWord(arg.query) THEN <<"coarse", 7>> ELSE <<"fine", 6>>

(***************************************************************************)
(* retrieval.py: QueryPreprocessor and HybridRetriever.retrieve.           *)
(* A raw query is a sequence of items [t |-> kind, s |-> string]:          *)
(*   "word" a run of characters without whitespace                         *)
(*   "ws"   a run of whitespace                                            *)
(*   "sig"  a trailer one of signature_patterns matches ("\nThanks, ...")  *)
(*   "date" a substring one of date_patterns matches                       *)
(***************************************************************************)
Word(str) == [t |-> "word", s |-> str]
Ws == [t |-> "ws", s |-> "  "]
Sig == [t |-> "sig", s |-> "Thanks, Bob"]
Date == [t |-> "date", s |-> "3/14/2024"]

stop_words ==
    {"the", "a", "an", "and", "or", "but", "in", "on", "at", "to",
     "for", "of", "with", "by", "from", "up", "about", "into",
     "through", "during", "before", "after", "above", "below",
     "between", "among", "is", "are", "was", "were", "be", "been",
     "have", "has", "had", "do", "does", "did", "will", "would",
     "could", "should", "may", "might", "must", "can"}

RECURSIVE BeforeTrailer(_)
BeforeTrailer(items) ==
    IF items = <<>> \/ Head(items).t = "sig" THEN <<>>
    ELSE <<Head(items)>> \o BeforeTrailer(Tail(items))

RECURSIVE WordsOf(_)
WordsOf(items) ==
    IF items = <<>> THEN <<>>
    ELSE LET x == Head(items)
         IN  (IF x.t = "word" THEN <<x.s>>
              ELSE IF x.t = "date" THEN <<"[DATE]">> ELSE <<>>) \o WordsOf(Tail(items))

\* QueryPreprocessor.clean_query
clean_query(query) ==
    IF query = <<>> THEN "" ELSE Join(WordsOf(BeforeTrailer(query)))

RECURSIVE Unique(_, _)
Unique(words, seen) ==
    IF words = <<>> THEN <<>>
    ELSE IF Head(words) \in seen THEN Unique(Tail(words), seen)
    ELSE <<Head(words)>> \o Unique(Tail(words), seen \cup {Head(words)})

Take(seq, k) == SubSeq(seq, 1, Min(Max(k, 0), Len(seq)))

MAX_KEYWORDS == 10

\* QueryPreprocessor.extract_keywords of an already cleaned query
extract_keywords(cleaned_query, max_keywords) ==
    LET words == FindWords(Lower(cleaned_query), 1, "")
        keywords == SelectSeq(words, LAMBDA x : Len(x) > 2 /\ x \notin stop_words)
    IN  Take(Unique(keywords, {}), max_keywords)

\* scores are fixed-point numbers: SCORE_ONE is 1.0
SCORE_ONE == 100000
AVG_DOC_LENGTH == 100
BM25_NORM == 5
MAX_N_RESULTS == 20

\* one term of _compute_bm25_score with k1 = 1.2, b = 0.75:
\* tf*(k1+1) / (tf + k1*(1 - b + b*doc_length/avg_doc_length)), both sides * 1000
Bm25Term(tf, doc_length) ==
    IF tf = 0 THEN 0
    ELSE (tf * 2200 * SCORE_ONE)
            \div (1000 * tf + 300 + (900 * doc_length) \div AVG_DOC_LENGTH)

RECURSIVE SumSeq(_)
SumSeq(s) == IF s = <<>> THEN 0 ELSE Head(s) + SumSeq(Tail(s))

\* HybridRetriever._compute_bm25_score; tfs[i] is doc_lower.count(query_terms[i])
compute_bm25_score(query_terms, tfs, doc_length) ==
    IF query_terms = <<>> \/ doc_length = 0 THEN 0
    ELSE SumSeq([i \in 1..Len(query_terms) |-> Bm25Term(tfs[i], doc_length)])

\* a fusion that takes the lexical score off
FusedScore_Penalty(result, query_terms) ==
    LET vector_score == Max(0, SCORE_ONE - result.distance)
        bm25_score == compute_bm25_score(query_terms, result.tfs, result.doc_length)
        normalized_bm25 == Min(SCORE_ONE, bm25_score \div BM25_NORM)
    IN  (7 * vector_score + 3 * (SCORE_ONE - normalized_bm25)) \div 10

\* lines 264-275 of _fuse_scores: the fused score of one search result
FusedScore(result, query_terms) ==
    LET vector_score == Max(0, SCORE_ONE - result.distance)
        bm25_score == compute_bm25_score(query_terms, result.tfs, result.doc_length)
        normalized_bm25 == Min(SCORE_ONE, bm25_score \div BM25_NORM)
    IN  (7 * vector_score + 3 * normalized_bm25) \div 10

\* list.sort(key=..., reverse=True) is stable: an element goes after the
\* elements that score at least as much
RECURSIVE InsertDesc(_, _)
InsertDesc(sorted, x) ==
    IF sorted = <<>> THEN <<x>>
    ELSE IF Head(sorted).relevance_score >= x.relevance_score
         THEN <<Head(sorted)>> \o InsertDesc(Tail(sorted), x)
         ELSE <<x>> \o sorted

RECURSIVE SortDesc(_, _)
SortDesc(unsorted, sorted) ==
    IF unsorted = <<>> THEN sorted
    ELSE SortDesc(Tail(unsorted), InsertDesc(sorted, Head(unsorted)))

\* _fuse_scores without the final sort
fuse_scores_Unsorted(vector_results, query_terms) ==
    [i \in 1..Len(vector_results) |->
        [id |-> vector_results[i].id, pos |-> i,
         relevance_score |-> FusedScore(vector_results[i], query_terms)]]

\* HybridRetriever._fuse_scores; pos is the rank the similarity search gave
fuse_scores(vector_results, query_terms) ==
    SortDesc([i \in 1..Len(vector_results) |->
                 [id |-> vector_results[i].id, pos |-> i,
                  relevance_score |-> FusedScore(vector_results[i], query_terms)]],
             <<>>)

\* lines 354-371 of retrieve without the [:k]
TopK_All(fused_results, k) ==
    [i \in 1..Len(fused_results) |->
        [id |-> fused_results[i].id, pos |-> fused_results[i].pos,
         relevance_score |-> fused_results[i].relevance_score, citation_id |-> i]]

\* lines 354-371 of retrieve: fused_results[:k] with citation_id = i + 1
TopK(fused_results, k) ==
    [i \in 1..Len(Take(fused_results, k)) |->
        [id |-> fused_results[i].id, pos |-> fused_results[i].pos,
         relevance_score |-> fused_results[i].relevance_score, citation_id |-> i]]

\* retrieve without the empty-query return
IsEmptyQuery_Never(cleaned_query) == FALSE

\* line 314: `if not cleaned_query`
IsEmptyQuery(cleaned_query) == cleaned_query = ""

MaxK == 2
DistVals == {20000, 30000, 120000}
TfVals == {0, 2}

RetrievalQueries ==
    {<<>>, <<Ws>>, <<Ws, Sig>>,
     <<Word("contract"), Ws, Word("clause"), Sig>>,
     <<Word("What"), Word("timeline?")>>,
     <<Word("status"), Date>>}

\* len(doc_lower.split()) of a chunk of n characters, for words of five letters
WordCount(n) == (n + 1) \div 6

\* what collection.query(query_embeddings, n_results) can return: the nearest
\* min(n_results, count) chunks, nearest first, with the term counts of their texts
SearchResults(coll, n_results, query_terms) ==
    LET m == Min(n_results, Cardinality(DOMAIN coll))
    IN  {[i \in 1..m |-> [id |-> ids[i], distance |-> ds[i], tfs |-> tfs[i],
                          doc_length |-> WordCount(coll[ids[i]].n)]] :
            ids \in {x \in [1..m -> DOMAIN coll] :
                        \A i, j \in 1..m : i # j => x[i] # x[j]},
            ds \in {x \in [1..m -> DistVals] :
                        \A i, j \in 1..m : i < j => x[i] <= x[j]},
            tfs \in [1..m -> [1..Len(query_terms) -> TfVals]]}

Called(query, k, chunk_type, cleaned_query, cands, result, raised, embeds, searches) ==
    [op |-> "retrieve", query |-> query, k |-> k, chunk_type |-> chunk_type,
     cleaned |-> cleaned_query, cands |-> cands, result |-> result,
     raised |-> raised, embeds |-> embeds, searches |-> searches]

\* the collection lines 324-327 select
SelectedName(chunk_type, cleaned_query) ==
    LET routed == IF chunk_type = None THEN route_query(cleaned_query)[1] ELSE chunk_type
    IN  IF routed = "coarse" THEN "coarse" ELSE "fine"

Selected(chunk_type, cleaned_query) ==
    IF SelectedName(chunk_type, cleaned_query) = "coarse" THEN coarse ELSE fine

\* lines 306-316: the query is empty after cleaning
RetrieveEmpty(query, k, chunk_type) ==
    /\ IsEmptyQuery(clean_query(query))
    /\ query_count' = query_count + 1
    /\ rlast' = Called(query, k, chunk_type, clean_query(query), <<>>, <<>>, FALSE, 0, 0)
    /\ UNCHANGED <<fine, coarse>>

\* a retrieve that takes what it returns out of the coarse collection
RetrieveResults_Consuming(query, k, chunk_type) ==
    /\ ~IsEmptyQuery(clean_query(query))
    /\ Live(SelectedName(chunk_type, clean_query(query)))
    /\ query_count' = query_count + 1
    /\ LET cleaned_query == clean_query(query)
           query_keywords == extract_keywords(cleaned_query, MAX_KEYWORDS)
       IN  \E cands \in SearchResults(Selected(chunk_type, cleaned_query),
                                      Min(k * 2, MAX_N_RESULTS), query_keywords) :
               rlast' = Called(query, k, chunk_type, cleaned_query, cands,
                               TopK(fuse_scores(cands, query_keywords), k),
                               FALSE, 1, 1)
    /\ coarse' = EmptyColl
    /\ UNCHANGED fine

\* lines 306-379: embed, search, fuse, cut to k
RetrieveResults(query, k, chunk_type) ==
    /\ ~IsEmptyQuery(clean_query(query))
    /\ Live(SelectedName(chunk_type, clean_query(query)))
    /\ query_count' = query_count + 1
    /\ LET cleaned_query == clean_query(query)
           query_keywords == extract_keywords(cleaned_query, MAX_KEYWORDS)
       IN  \E cands \in SearchResults(Selected(chunk_type, cleaned_query),
                                      Min(k * 2, MAX_N_RESULTS), query_keywords) :
               rlast' = Called(query, k, chunk_type, cleaned_query, cands,
                               TopK(fuse_scores(cands, query_keywords), k),
                               FALSE, 1, 1)
    /\ UNCHANGED <<fine, coarse>>

\* lines 381-383: embedding_model.encode raises (searches = 0) or
\* collection.query raises (searches = 1; a store may do so for n_results = 0,
\* another returns no result then, which RetrieveResults covers)
RetrieveRaises(query, k, chunk_type, searches) ==
    /\ ~IsEmptyQuery(clean_query(query))
    /\ query_count' = query_count + 1
    /\ rlast' = Called(query, k, chunk_type, clean_query(query), <<>>, <<>>,
                       TRUE, 1, searches)
    /\ UNCHANGED <<fine, coarse>>

\* the collections after the documents of D were indexed
IndexOf(D, chunk_type) ==
    [id \in UNION {DOMAIN NewChunks(Doc(d), chunk_type) : d \in D} |->
        NewChunks(Doc(CHOOSE d \in D : id \in DOMAIN NewChunks(Doc(d), chunk_type)),
                  chunk_type)[id]]

IndexedSets == {{}, {"e_600"}, {"e_big"}}

InitRetrieve ==
    /\ storeMode = "skip"
    /\ \E D \in IndexedSets : fine = IndexOf(D, "fine") /\ coarse = IndexOf(D, "coarse")
    /\ pc = [w \in Workers |-> "idle"] /\ cur = [w \in Workers |-> NoCall]
    /\ ret = [w \in Workers |-> NoCall] /\ done = [d \in DocNames |-> "none"]
    /\ ncalls = 0 /\ query_count = 0 /\ rlast = NoArg
    /\ dropped = {} /\ clr = NoClear /\ batch = NoBatch /\ readers = NoReaders
    /\ arg = NoArg /\ res = <<>>

NextRetrieve ==
    \E query \in RetrievalQueries, k \in 0..MaxK, chunk_type \in {None, "fine", "coarse"} :
        /\ rlast = NoArg
        /\ \/ RetrieveEmpty(query, k, chunk_type)
           \/ RetrieveResults(query, k, chunk_type)
           \/ \E searches \in {0, 1} : RetrieveRaises(query, k, chunk_type, searches)
        /\ UNCHANGED <<storeMode, pc, cur, ret, done, ncalls, pureVars, clearVars, batch, readers>>

SpecRetrieve == InitRetrieve /\ [][NextRetrieve]_vars

Retrieved == rlast.op = "retrieve"

(***************************************************************************)
(* C7.  Result cap: retrieve(q, k) returns at most k results for every     *)
(* k >= 0, and retrieve(q, 0) returns the empty list.                      *)
(***************************************************************************)
C7_ResultCap ==
    Retrieved => /\ Len(rlast.result) <= rlast.k
                 /\ rlast.k = 0 => rlast.result = <<>>

\* a search that found more candidates than k, cut to k
C7_Witness ==
    /\ Retrieved /\ rlast.k >= 1
    /\ Len(rlast.cands) > rlast.k
    /\ Len(rlast.result) = rlast.k

(***************************************************************************)
(* C8.  Empty query: for a query that is empty after cleaning, retrieve    *)
(* returns the empty list, nothing raises, and neither the embedding model *)
(* nor a collection was called.                                            *)
(***************************************************************************)
C8_EmptyQuery ==
    (Retrieved /\ clean_query(rlast.query) = "")
    => /\ rlast.result = <<>>
       /\ ~rlast.raised
       /\ rlast.embeds = 0 /\ rlast.searches = 0

\* a query that is only whitespace and a signature trailer, on a filled index
C8_Witness ==
    /\ Retrieved /\ rlast.query # <<>> /\ clean_query(rlast.query) = ""
    /\ rlast.result = <<>> /\ rlast.k >= 1
    /\ DOMAIN fine # {}

(***************************************************************************)
(* C9.  Ranking: the returned list is sorted by relevance_score, highest   *)
(* first; citation_id is 1..n in list order; the list is the k best of     *)
(* the candidates the similarity search returned, each with its fused      *)
(* score; candidates with equal fused score keep the order of the search.  *)
(***************************************************************************)
C9_Ranking ==
    (Retrieved /\ ~rlast.raised /\ rlast.cleaned # "")
    => LET r == rlast.result
           c == rlast.cands
           kw == extract_keywords(rlast.cleaned, MAX_KEYWORDS)
           picked == {r[i].pos : i \in 1..Len(r)}
       IN  /\ Len(r) = Min(rlast.k, Len(c))
           /\ \A i \in 1..Len(r) :
                 /\ r[i].citation_id = i
                 /\ r[i].pos \in 1..Len(c)
                 /\ r[i].id = c[r[i].pos].id
                 /\ r[i].relevance_score = FusedScore(c[r[i].pos], kw)
           /\ \A i, j \in 1..Len(r) :
                 i < j => /\ r[i].relevance_score >= r[j].relevance_score
                          /\ r[i].pos # r[j].pos
                          /\ r[i].relevance_score = r[j].relevance_score
                                => r[i].pos < r[j].pos
           /\ \A j \in (1..Len(c)) \ picked : \A i \in 1..Len(r) :
                 /\ FusedScore(c[j], kw) <= r[i].relevance_score
                 /\ FusedScore(c[j], kw) = r[i].relevance_score => r[i].pos < j

\* the lexical score moved a farther candidate to the top, and of two
\* candidates with equal score the one the search ranked first was returned
C9_Witness ==
    /\ Retrieved /\ ~rlast.raised
    /\ Len(rlast.result) = 2 /\ Len(rlast.cands) = 3
    /\ rlast.result[1].pos = 3
    /\ rlast.cands[3].distance > rlast.cands[1].distance
    /\ rlast.result[2].relevance_score
         = FusedScore(rlast.cands[2], extract_keywords(rlast.cleaned, MAX_KEYWORDS))
    /\ rlast.result[2].pos = 1

(***************************************************************************)
(* retrieval.py: HybridRetriever.retrieve_by_message_id.                   *)
(***************************************************************************)
MaxLookupK == 5

\* collection.get(where={key: value})['ids']
GetWhere(coll, key, value) ==
    {id \in DOMAIN coll : coll[id].ref_key = key /\ coll[id].ref = value}

\* the orders in which the store can list a set of chunks
Orders(ids) ==
    {x \in [1..Cardinality(ids) -> ids] :
        \A i, j \in 1..Cardinality(ids) : i # j => x[i] # x[j]}

\* lines 414-448: the fine results, then the coarse results
AllResults(message_id, fine_ids, coarse_ids) ==
    [i \in 1..(Len(fine_ids) + Len(coarse_ids)) |->
        [id |-> IF i <= Len(fine_ids) THEN fine_ids[i] ELSE coarse_ids[i - Len(fine_ids)],
         msg_id |-> message_id,
         relevance_score |-> SCORE_ONE,
         chunk_type |-> IF i <= Len(fine_ids) THEN "fine" ELSE "coarse",
         citation_id |-> i]]

Looked(message_id, k, result, raised) ==
    [op |-> "lookup", message_id |-> message_id, k |-> k, result |-> result,
     raised |-> raised]

\* retrieve_by_message_id that cuts nothing
RetrieveByMessageId_Uncut(message_id, k) ==
    /\ Live("fine") /\ Live("coarse")
    /\ \E fine_ids \in Orders(GetWhere(fine, "msg_id", message_id)),
          coarse_ids \in Orders(GetWhere(coarse, "msg_id", message_id)) :
          rlast' = Looked(message_id, k,
                          AllResults(message_id, fine_ids, coarse_ids), FALSE)
    /\ UNCHANGED <<query_count, fine, coarse>>

\* HybridRetriever.retrieve_by_message_id, lines 391-451
RetrieveByMessageId(message_id, k) ==
    /\ Live("fine") /\ Live("coarse")
    /\ \E fine_ids \in Orders(GetWhere(fine, "msg_id", message_id)),
          coarse_ids \in Orders(GetWhere(coarse, "msg_id", message_id)) :
          rlast' = Looked(message_id, k,
                          Take(AllResults(message_id, fine_ids, coarse_ids), k), FALSE)
    /\ UNCHANGED <<query_count, fine, coarse>>

\* lines 453-455: one of the two collection.get calls raises
RetrieveByMessageIdRaises(message_id, k) ==
    /\ rlast' = Looked(message_id, k, <<>>, TRUE)
    /\ UNCHANGED <<query_count, fine, coarse>>

\* the source_refs a caller may ask for: those of the documents, and one of
\* no document
SourceRefs == {Doc(d).id : d \in DocNames} \cup {Id("m9", 2)}

LookupSets == {{}, {"e_600"}, {"e_two"}, {"e_big"}, {"p_doc"}, {"e_two", "e_big", "p_doc"}}

InitLookup ==
    /\ storeMode = "skip"
    /\ \E D \in LookupSets : fine = IndexOf(D, "fine") /\ coarse = IndexOf(D, "coarse")
    /\ pc = [w \in Workers |-> "idle"] /\ cur = [w \in Workers |-> NoCall]
    /\ ret = [w \in Workers |-> NoCall] /\ done = [d \in DocNames |-> "none"]
    /\ ncalls = 0 /\ query_count = 0 /\ rlast = NoArg
    /\ dropped = {} /\ clr = NoClear /\ batch = NoBatch /\ readers = NoReaders
    /\ arg = NoArg /\ res = <<>>

NextLookup ==
    \E message_id \in SourceRefs, k \in 0..MaxLookupK :
        /\ rlast = NoArg
        /\ \/ RetrieveByMessageId(message_id, k)
           \/ RetrieveByMessageIdRaises(message_id, k)
        /\ UNCHANGED <<storeMode, pc, cur, ret, done, ncalls, pureVars, clearVars, batch, readers>>

SpecLookup == InitLookup /\ [][NextLookup]_vars

LookedUp == rlast.op = "lookup" /\ ~rlast.raised

\* the chunks of a collection that belong to the source source_ref
ChunksOfRef(coll, source_ref) == {id \in DOMAIN coll : coll[id].ref = source_ref}

(***************************************************************************)
(* C12.  Lookup by source for an email: with F fine and C coarse chunks of *)
(* the message id in the index, retrieve_by_message_id(message_id, k)      *)
(* returns exactly min(k, F + C) results, each with relevance_score 1.0,   *)
(* all fine chunks before any coarse chunk, with citation_id 1..n in list  *)
(* order, and each a chunk of that message.                                *)
(***************************************************************************)
C12_LookupEmail ==
    (LookedUp /\ \E d \in DocNames : Doc(d).kind = "email" /\ Doc(d).id = rlast.message_id)
    => LET r == rlast.result
           nf == Cardinality(ChunksOfRef(fine, rlast.message_id))
           nc == Cardinality(ChunksOfRef(coarse, rlast.message_id))
       IN  /\ Len(r) = Min(rlast.k, nf + nc)
           /\ \A i \in 1..Len(r) :
                 /\ r[i].relevance_score = SCORE_ONE
                 /\ r[i].citation_id = i
                 /\ r[i].chunk_type = (IF i <= nf THEN "fine" ELSE "coarse")
                 /\ r[i].id \in (IF i <= nf THEN ChunksOfRef(fine, rlast.message_id)
                                  ELSE ChunksOfRef(coarse, rlast.message_id))
           /\ \A i, j \in 1..Len(r) : i # j => r[i].id # r[j].id

\* 2 fine chunks and 1 coarse chunk, k = 5: exactly 3 results
C12_Witness ==
    /\ LookedUp /\ rlast.k = 5
    /\ Cardinality(ChunksOfRef(fine, rlast.message_id)) = 2
    /\ Cardinality(ChunksOfRef(coarse, rlast.message_id)) = 1
    /\ Len(rlast.result) = 3
    /\ rlast.result[3].chunk_type = "coarse"

(***************************************************************************)
(* C13.  Lookup by source for both kinds of source_ref: for an indexed     *)
(* document, email (message id) or PDF (file path), the lookup called      *)
(* with the document's source_ref returns the document's chunks, up to k.  *)
(***************************************************************************)
C13_LookupAnySource ==
    LookedUp
    => LET r == rlast.result
           mine == ChunksOfRef(fine, rlast.message_id)
                     \cup ChunksOfRef(coarse, rlast.message_id)
       IN  /\ Len(r) = Min(rlast.k, Cardinality(mine))
           /\ \A i \in 1..Len(r) : r[i].id \in mine

(***************************************************************************)
(* knowledge_indexer.py: batch_index_emails.  The rows the SELECT returns  *)
(* are emails with a body; message_id is not a key of the emails table, so *)
(* two rows can carry the same message id.                                 *)
(***************************************************************************)
BatchDocs == {"e_short", "e_600", "e_600b", "e_big"}

\* cursor.fetchall(): the selected rows, in the order of the query
Rows(docs, n) == {x \in [1..n -> docs] : \A i, j \in 1..n : i # j => x[i] # x[j]}

InBatch == batch.state \in {"loop", "call"}

\* lines 397-421: connect, select, fetch; the except clause of lines 453-456
\* when the database raises
BatchStart(w, emails, selected) ==
    /\ pc[w] = "idle"
    /\ ~InBatch
    /\ batch' = [state |-> IF selected THEN "loop" ELSE "done",
                 emails |-> emails, selected |-> selected, i |-> 1,
                 processed |-> 0, success |-> 0, failed |-> 0, skipped |-> 0,
                 attempted |-> <<>>, results |-> <<>>, raised |-> ~selected]
    /\ UNCHANGED indexVars

\* lines 423-436: the next row; index_email is called
BatchCall(w) ==
    /\ batch.state = "loop"
    /\ batch.i <= Len(batch.emails)
    /\ StartIndex(w, batch.emails[batch.i])
    /\ batch' = [batch EXCEPT !.state = "call", !.processed = @ + 1,
                              !.attempted = Append(@, batch.emails[batch.i])]

\* a loop that ends at the first failed email
BatchCount_Abort(w) ==
    /\ batch.state = "call"
    /\ pc[w] = "idle"
    /\ batch' = [batch EXCEPT !.state = "loop",
                              !.i = IF ret[w].result THEN @ + 1 ELSE Len(batch.emails) + 1,
                              !.success = IF ret[w].result THEN @ + 1 ELSE @,
                              !.failed = IF ret[w].result THEN @ ELSE @ + 1,
                              !.results = Append(@, ret[w].result)]
    /\ UNCHANGED indexVars

\* lines 436-439: index_email returned; count it
BatchCount(w) ==
    /\ batch.state = "call"
    /\ pc[w] = "idle"
    /\ batch' = [batch EXCEPT !.state = "loop", !.i = @ + 1,
                              !.success = IF ret[w].result THEN @ + 1 ELSE @,
                              !.failed = IF ret[w].result THEN @ ELSE @ + 1,
                              !.results = Append(@, ret[w].result)]
    /\ UNCHANGED indexVars

\* lines 445-448: conn.close() and return stats; lines 453-456 when
\* conn.close() raises
BatchReturn(w, closed) ==
    /\ batch.state = "loop"
    /\ batch.i > Len(batch.emails)
    /\ batch' = [batch EXCEPT !.state = "done", !.raised = ~closed,
                              !.failed = IF closed THEN @
                                         ELSE batch.processed - batch.success]
    /\ UNCHANGED indexVars

\* batch_index_emails, once, on an index some documents were put into before
NextBatch ==
    \/ \E d \in BatchDocs \cup {"p_doc"} : batch.state = None /\ StartIndex("w1", d)
                              /\ UNCHANGED <<pureVars, retrVars, clearVars, batch, readers>>
    \/ Probe("w1") /\ UNCHANGED <<pureVars, retrVars, clearVars, batch, readers>>
    \/ WriteFine("w1") /\ UNCHANGED <<pureVars, retrVars, clearVars, batch, readers>>
    \/ WriteCoarse("w1") /\ UNCHANGED <<pureVars, retrVars, clearVars, batch, readers>>
    \/ Fault("w1") /\ UNCHANGED <<pureVars, retrVars, clearVars, batch, readers>>
    \/ \E n \in 0..(MaxCalls - ncalls) : \E emails \in Rows(BatchDocs, n), selected \in BOOLEAN :
           /\ batch.state = None
           /\ BatchStart("w1", emails, selected)
           /\ UNCHANGED <<pureVars, retrVars, clearVars, readers>>
    \/ BatchCall("w1") /\ UNCHANGED <<pureVars, retrVars, clearVars, readers>>
    \/ BatchCount("w1") /\ UNCHANGED <<pureVars, retrVars, clearVars, readers>>
    \/ \E closed \in BOOLEAN :
           BatchReturn("w1", closed) /\ UNCHANGED <<pureVars, retrVars, clearVars, readers>>

SpecBatch == Init /\ [][NextBatch]_vars

BatchDone == batch.state = "done" /\ batch.selected

Kept(coll, coll_after) ==
    \A id \in DOMAIN coll : id \in DOMAIN coll_after /\ coll_after[id] = coll[id]

(***************************************************************************)
(* C16.  A chunk in a collection is never changed or removed by an         *)
(* indexing call: in every step of index_email, index_pdf and              *)
(* batch_index_emails (no clear_index in between), every chunk present     *)
(* stays with the same text, metadata and embedding, also when the call    *)
(* reuses a chunk id, and the chunk counts never decrease.                 *)
(***************************************************************************)
C16_ChunksKept ==
    [][clr' = clr
       => /\ Kept(fine, fine') /\ Kept(coarse, coarse')
          /\ Cardinality(DOMAIN fine') >= Cardinality(DOMAIN fine)
          /\ Cardinality(DOMAIN coarse') >= Cardinality(DOMAIN coarse)]_vars

\* inside a batch, index_email ran for a message id whose chunk ids were in
\* the fine collection already, with changed content
C16_Witness ==
    /\ batch.state = "call" /\ Returned("w1")
    /\ ret["w1"].doc = "e_600b" /\ ~ret["w1"].fresh /\ ~ret["w1"].faulted
    /\ ret["w1"].prev = "none"
    /\ ProbeFound(fine, Doc("e_600"))

(***************************************************************************)
(* One indexing thread (index_email, index_pdf, batch_index_emails,        *)
(* clear_index, one call after the other) and readers that call retrieve   *)
(* or retrieve_by_message_id between any two of its steps.  rlast holds a  *)
(* retrieval from its return to the next step of the indexing thread; the  *)
(* retrievals are single steps, so two of them do not overlap.  clr and    *)
(* batch hold a call of clear_index and of batch_index_emails until the    *)
(* indexing thread makes its next call.                                    *)
(***************************************************************************)
MaxOpsCalls == 2
MaxReads == 1
OpsDocs == {"e_big", "p_doc"}
OpsQueries == {<<Ws, Sig>>, <<Word("status")>>}

NextOps ==
    \/ \E d \in OpsDocs : /\ ~InBatch /\ ncalls < MaxOpsCalls
                            /\ StartIndex("w1", d)
                            /\ rlast' = NoArg /\ clr' = NoClear /\ batch' = NoBatch
                            /\ UNCHANGED <<pureVars, query_count, dropped, readers>>
    \/ Probe("w1") /\ rlast' = NoArg
                   /\ UNCHANGED <<pureVars, query_count, clearVars, batch, readers>>
    \/ WriteFine("w1") /\ rlast' = NoArg
                       /\ UNCHANGED <<pureVars, query_count, clearVars, batch, readers>>
    \/ WriteCoarse("w1") /\ rlast' = NoArg
                         /\ UNCHANGED <<pureVars, query_count, clearVars, batch, readers>>
    \/ Fault("w1") /\ rlast' = NoArg
                   /\ UNCHANGED <<pureVars, query_count, clearVars, batch, readers>>
    \/ \E fail_at \in 0..CLEAR_STEPS :
           /\ ~InBatch /\ ncalls < MaxOpsCalls
           /\ ClearIndex("w1", fail_at)
           /\ rlast' = NoArg /\ batch' = NoBatch
           /\ UNCHANGED <<pureVars, query_count, readers>>
    \/ \E n \in 0..(MaxOpsCalls - ncalls) :
           \E emails \in Rows(OpsDocs \cap BatchDocs, n), selected \in BOOLEAN :
               /\ BatchStart("w1", emails, selected)
               /\ rlast' = NoArg /\ clr' = NoClear
               /\ UNCHANGED <<pureVars, query_count, dropped, readers>>
    \/ BatchCall("w1") /\ rlast' = NoArg
                       /\ UNCHANGED <<pureVars, query_count, clearVars, readers>>
    \/ BatchCount("w1") /\ rlast' = NoArg
                        /\ UNCHANGED <<pureVars, query_count, clearVars, readers>>
    \/ \E closed \in BOOLEAN :
           /\ BatchReturn("w1", closed)
           /\ rlast' = NoArg
           /\ UNCHANGED <<pureVars, query_count, clearVars, readers>>
    \/ \E query \in OpsQueries, k \in {1}, chunk_type \in {None, "coarse"} :
           /\ rlast = NoArg /\ query_count < MaxReads
           /\ \/ RetrieveEmpty(query, k, chunk_type)
              \/ RetrieveResults(query, k, chunk_type)
              \/ \E searches \in {0, 1} : RetrieveRaises(query, k, chunk_type, searches)
           /\ UNCHANGED <<storeMode, pc, cur, ret, done, ncalls, pureVars, clearVars, batch, readers>>
    \/ \E d \in OpsDocs, k \in {2} :
           /\ rlast = NoArg
           /\ \/ RetrieveByMessageId(Doc(d).id, k)
              \/ RetrieveByMessageIdRaises(Doc(d).id, k)
           /\ UNCHANGED <<storeMode, pc, cur, ret, done, ncalls, pureVars, clearVars, batch, readers>>

SpecOps == Init /\ [][NextOps]_vars

(***************************************************************************)
(* C14.  No public entry point raises: when the embedding model or a       *)
(* collection operation fails, index_email and index_pdf return false,     *)
(* clear_index returns false, retrieve and retrieve_by_message_id return   *)
(* the empty list, and batch_index_emails returns its stats with           *)
(* failed = processed - success; every failing call returns.               *)
(***************************************************************************)
C14_FailureValues ==
    /\ \A w \in Workers : (Returned(w) /\ ret[w].faulted) => ~ret[w].result
    /\ clr.fail_at # 0 => ~clr.result
    /\ (rlast.op \in {"retrieve", "lookup"} /\ rlast.raised) => rlast.result = <<>>
    /\ (batch.state = "done" /\ batch.raised)
       => batch.failed = batch.processed - batch.success

\* index_pdf failed at the coarse write, after the fine chunks were written
C14_Witness ==
    /\ Returned("w1") /\ Doc(ret["w1"].doc).kind = "pdf"
    /\ ret["w1"].faulted /\ ~ret["w1"].result /\ ret["w1"].wf > 0

(***************************************************************************)
(* C17.  Retrieval is read-only: a step of retrieve or of                  *)
(* retrieve_by_message_id, at any point between the steps of the indexing  *)
(* thread, leaves both collections (ids, texts, metadata, embeddings) as   *)
(* they are.                                                               *)
(***************************************************************************)
C17_ReadOnly ==
    [][rlast' # NoArg => fine' = fine /\ coarse' = coarse]_vars

\* retrieve returned a coarse chunk while an indexing call was between its
\* fine and its coarse write
C17_Witness ==
    /\ rlast.op = "retrieve" /\ rlast.result # <<>>
    /\ pc["w1"] = "coarse"
    /\ DOMAIN coarse # {}

(***************************************************************************)
(* Two threads in index_email / index_pdf on one KnowledgeIndexer (each    *)
(* /api/rag/reindex request runs batch_index_emails in a thread of its     *)
(* own); a step is one collection operation.                               *)
(***************************************************************************)
MaxParCalls == 2
ParDocs == {"e_600", "e_600b", "e_big", "p_doc"}

NextPar ==
    \E w \in Workers :
        \/ \E d \in ParDocs : ncalls < MaxParCalls /\ StartIndex(w, d)
                                /\ UNCHANGED <<pureVars, retrVars, clearVars, batch, readers>>
        \/ Probe(w) /\ UNCHANGED <<pureVars, retrVars, clearVars, batch, readers>>
        \/ WriteFine(w) /\ UNCHANGED <<pureVars, retrVars, clearVars, batch, readers>>
        \/ WriteCoarse(w) /\ UNCHANGED <<pureVars, retrVars, clearVars, batch, readers>>
        \/ Fault(w) /\ UNCHANGED <<pureVars, retrVars, clearVars, batch, readers>>

SpecPar == Init /\ [][NextPar]_vars

\* two calls were made, one by each thread, and both have returned
TwoReturned == ncalls = 2 /\ \A w \in Workers : Returned(w)

(***************************************************************************)
(* C18.  Independent documents in parallel: for two emails with different  *)
(* source_ref, every interleaving of the steps of two concurrent           *)
(* index_email calls (nothing raising) ends with both collections as       *)
(* running the two calls one after the other leaves them, and both calls   *)
(* return success.                                                         *)
(***************************************************************************)
C18_ParallelIndependent ==
    (/\ TwoReturned
     /\ \A w \in Workers : Doc(ret[w].doc).kind = "email" /\ ~ret[w].faulted
     /\ Doc(ret["w1"].doc).id # Doc(ret["w2"].doc).id)
    => /\ \A w \in Workers : ret[w].result
       /\ fine = IndexOf({ret["w1"].doc, ret["w2"].doc}, "fine")
       /\ coarse = IndexOf({ret["w1"].doc, ret["w2"].doc}, "coarse")

\* the two calls overlapped, and each wrote its chunks
C18_Witness ==
    /\ TwoReturned
    /\ Doc(ret["w1"].doc).kind = "email" /\ Doc(ret["w2"].doc).kind = "email"
    /\ Doc(ret["w1"].doc).id # Doc(ret["w2"].doc).id
    /\ \E w \in Workers : ret[w].par
    /\ \A w \in Workers : ret[w].result /\ ret[w].wf > 0 /\ ~ret[w].faulted
    /\ DOMAIN coarse # {}

\* both threads indexed the same document, both passed the dedup probe (so
\* neither had written when the other probed), and nothing else raised
SameDocRace ==
    /\ TwoReturned
    /\ ret["w1"].doc = ret["w2"].doc
    /\ \A w \in Workers : ret[w].passed /\ ~ret[w].faulted

\* the chunks of a collection that carry the document hash h
ChunksOfHash(coll, h) == {id \in DOMAIN coll : coll[id].doc_hash = h}

\* two chunks of a collection for the same document, granularity and chunk_index
HasDuplicates(coll) ==
    \E id1, id2 \in DOMAIN coll :
        /\ id1 # id2
        /\ coll[id1].doc_hash = coll[id2].doc_hash
        /\ coll[id1].chunk_type = coll[id2].chunk_type
        /\ coll[id1].chunk_index = coll[id2].chunk_index

(***************************************************************************)
(* C24.  As claimed: when two workers index the same new document and      *)
(* both pass the probe before either writes, the race leaves a duplicate   *)
(* chunk set in a collection (more than one chunk for the same document,   *)
(* granularity and chunk_index).                                           *)
(***************************************************************************)
C24_RaceDuplicates ==
    SameDocRace => HasDuplicates(fine) \/ HasDuplicates(coarse)

(***************************************************************************)
(* C24 as amended: two workers indexing the same new document can both     *)
(* pass the probe before either writes, and the race leaves no duplicate:  *)
(* the ids of the chunks are made from the document, so the second add of  *)
(* the same ids is rejected by the store (that call returns false) or      *)
(* skipped (both calls return true), and each collection ends with exactly *)
(* one chunk per chunk_index of the document, written by one of the calls. *)
(***************************************************************************)
C24_RaceNoDuplicates ==
    SameDocRace
    => LET doc == Doc(ret["w1"].doc)
       IN  /\ ~HasDuplicates(fine) /\ ~HasDuplicates(coarse)
           /\ Cardinality(ChunksOfHash(fine, doc_hash(doc))) = Len(fine_chunks(doc))
           /\ Cardinality(ChunksOfHash(coarse, doc_hash(doc))) = Len(coarse_chunks(doc))
           /\ ret["w1"].wf + ret["w2"].wf = Len(fine_chunks(doc))
           /\ ret["w1"].wc + ret["w2"].wc = Len(coarse_chunks(doc))
           /\ storeMode = "skip" => ret["w1"].result /\ ret["w2"].result
           /\ storeMode = "reject" => ret["w1"].result # ret["w2"].result

\* both calls for the email with three fine chunks passed the probe; the
\* store rejected the second add
C24_Witness ==
    /\ SameDocRace
    /\ storeMode = "reject"
    /\ ret["w1"].doc = "e_big"
    /\ ~ret["w2"].result /\ ret["w1"].wf = 3 /\ ret["w1"].wc = 1

(***************************************************************************)
(* _fuse_scores on two candidates the search returned at the same          *)
(* distance: a and b are the term counts and lengths of their texts.       *)
(***************************************************************************)
MaxTerms == 2
MaxTf == 2
FuseDistances == {0, 30000, 120000}
DocLengths == {1, 100, 400}
TermNames == <<"contract", "clause", "renewal", "notice">>

Candidates(n) == [tfs : [1..n -> 0..MaxTf], doc_length : DocLengths]

Scored(c, distance, query_terms) ==
    [bm25 |-> compute_bm25_score(query_terms, c.tfs, c.doc_length),
     fused |-> FusedScore([distance |-> distance, tfs |-> c.tfs,
                           doc_length |-> c.doc_length], query_terms)]

FuseCall ==
    /\ arg.op = "fuse"
    /\ res = <<>>
    /\ res' = <<Scored(arg.a, arg.distance, arg.query_terms),
                Scored(arg.b, arg.distance, arg.query_terms)>>
    /\ UNCHANGED arg

InitFuse ==
    /\ storeMode = "skip" /\ fine = EmptyColl /\ coarse = EmptyColl
    /\ pc = [w \in Workers |-> "idle"] /\ cur = [w \in Workers |-> NoCall]
    /\ ret = [w \in Workers |-> NoCall] /\ done = [d \in DocNames |-> "none"]
    /\ ncalls = 0 /\ query_count = 0 /\ rlast = NoArg
    /\ dropped = {} /\ clr = NoClear /\ batch = NoBatch /\ readers = NoReaders
    /\ \E n \in 1..MaxTerms :
          arg \in [op : {"fuse"}, query_terms : {SubSeq(TermNames, 1, n)},
                   distance : FuseDistances, a : Candidates(n), b : Candidates(n)]
    /\ res = <<>>

NextFuse == FuseCall /\ UNCHANGED <<indexVars, retrVars, clearVars, batch, readers>>

SpecFuse == InitFuse /\ [][NextFuse]_vars

Fused == arg.op = "fuse" /\ res # <<>>

\* b is a with one more query keyword occurring in the text
OneMoreKeyword(a, b) ==
    /\ a.doc_length = b.doc_length
    /\ \E j \in DOMAIN a.tfs :
          /\ a.tfs[j] = 0 /\ b.tfs[j] > 0
          /\ \A i \in DOMAIN a.tfs \ {j} : a.tfs[i] = b.tfs[i]

(***************************************************************************)
(* C20.  Fusion monotonicity: the fused score is 0.7*sim + 0.3*lexical     *)
(* with sim = max(0, 1 - distance) and lexical = min(1, bm25/5); of two    *)
(* candidates at the same distance the one with the higher lexical score   *)
(* never gets the lower fused score; and one more query keyword occurring  *)
(* in a text (other term counts and the length unchanged) never lowers     *)
(* the fused score.                                                        *)
(***************************************************************************)
C20_FusionMonotone ==
    Fused =>
        /\ \A i \in 1..2 :
              res[i].fused = (7 * Max(0, SCORE_ONE - arg.distance)
                                + 3 * Min(SCORE_ONE, res[i].bm25 \div BM25_NORM)) \div 10
        /\ res[1].bm25 > res[2].bm25 => res[1].fused >= res[2].fused
        /\ OneMoreKeyword(arg.a, arg.b) => res[2].fused >= res[1].fused

\* a second keyword in the text raised the fused score of a candidate whose
\* distance is above 1
C20_Witness ==
    /\ Fused
    /\ OneMoreKeyword(arg.a, arg.b)
    /\ Len(arg.query_terms) = 2 /\ \E j \in 1..2 : arg.a.tfs[j] > 0
    /\ arg.distance > SCORE_ONE
    /\ res[2].fused > res[1].fused

(***************************************************************************)
(* retrieval.py: format_results_for_llm.  A text is [n |-> its length,     *)
(* cut |-> it ends with the "..." the formatter appends]; a result is      *)
(* [citation_id, text].                                                    *)
(***************************************************************************)
SNIPPET_MAX == 500
ELLIPSIS_LEN == 3

Text(n) == [n |-> n, cut |-> FALSE]

\* lines 498-502: text[:500] + "..." for a text of more than 500 characters
Snippet(text) ==
    IF text.n > SNIPPET_MAX THEN [n |-> SNIPPET_MAX + ELLIPSIS_LEN, cut |-> TRUE]
    ELSE text

\* one entry of the evidence list; pos is the place of the result in the input
Evidence(result, pos) ==
    [id |-> result.citation_id, text |-> Snippet(result.text), pos |-> pos]

\* a loop that goes on to the next result when one does not fit
RECURSIVE FormatLoop_SkipAhead(_, _, _, _, _)
FormatLoop_SkipAhead(results, i, evidence, current_length, max_context_length) ==
    IF i > Len(results) THEN evidence
    ELSE LET text == Snippet(results[i].text)
         IN  IF current_length + text.n > max_context_length
             THEN FormatLoop_SkipAhead(results, i + 1, evidence, current_length,
                                       max_context_length)
             ELSE FormatLoop_SkipAhead(results, i + 1,
                                       Append(evidence, Evidence(results[i], i)),
                                       current_length + text.n, max_context_length)

\* lines 497-516: the loop over the results from result i on
RECURSIVE FormatLoop(_, _, _, _, _)
FormatLoop(results, i, evidence, current_length, max_context_length) ==
    IF i > Len(results) THEN evidence
    ELSE LET text == Snippet(results[i].text)
         IN  IF current_length + text.n > max_context_length
             THEN evidence
             ELSE FormatLoop(results, i + 1,
                             Append(evidence, Evidence(results[i], i)),
                             current_length + text.n, max_context_length)

\* format_results_for_llm, lines 480-518
format_results_for_llm(results, max_context_length) ==
    IF results = <<>> THEN <<>>
    ELSE FormatLoop(results, 1, <<>>, 0, max_context_length)

MaxResults == 3
TextLens == {0, 100, 500, 501, 900}
ContextLengths == {0, 99, 500, 502, 503, 600, 1106, 2000}

\* result lists as retrieve and retrieve_by_message_id build them:
\* citation_id is the place in the list
ResultLists ==
    {[i \in 1..Len(ns) |-> [citation_id |-> i, text |-> Text(ns[i])]] :
        ns \in UNION {[1..k -> TextLens] : k \in 0..MaxResults}}

FormatCall ==
    /\ arg.op = "format"
    /\ res = <<>>
    /\ res' = <<format_results_for_llm(arg.results, arg.max_context_length)>>
    /\ UNCHANGED arg

InitFormat ==
    /\ storeMode = "skip" /\ fine = EmptyColl /\ coarse = EmptyColl
    /\ pc = [w \in Workers |-> "idle"] /\ cur = [w \in Workers |-> NoCall]
    /\ ret = [w \in Workers |-> NoCall] /\ done = [d \in DocNames |-> "none"]
    /\ ncalls = 0 /\ query_count = 0 /\ rlast = NoArg
    /\ dropped = {} /\ clr = NoClear /\ batch = NoBatch /\ readers = NoReaders
    /\ arg \in [op : {"format"}, results : ResultLists,
                max_context_length : ContextLengths]
    /\ res = <<>>

NextFormat == FormatCall /\ UNCHANGED <<indexVars, retrVars, clearVars, batch, readers>>

SpecFormat == InitFormat /\ [][NextFormat]_vars

Formatted == arg.op = "format" /\ res # <<>>

RECURSIVE SumTextLen(_)
SumTextLen(evidence) ==
    IF evidence = <<>> THEN 0 ELSE Head(evidence).text.n + SumTextLen(Tail(evidence))

(***************************************************************************)
(* C21.  Snippet truncation: every text format_results_for_llm emits is    *)
(* at most 500 characters long, whatever the length of the result's text.  *)
(***************************************************************************)
C21_SnippetMax ==
    Formatted => \A i \in 1..Len(res[1]) : res[1][i].text.n <= SNIPPET_MAX

(***************************************************************************)
(* C22.  Prompt budget: the lengths of the emitted texts sum to at most    *)
(* max_context_length; the emitted entries are the first entries of the    *)
(* input list, in order, with their citation ids; the entry after the last *)
(* emitted one, if there is one, does not fit.                             *)
(***************************************************************************)
C22_PromptBudget ==
    Formatted =>
        LET ev == res[1]
            results == arg.results
        IN  /\ SumTextLen(ev) <= arg.max_context_length
            /\ Len(ev) <= Len(results)
            /\ \A i \in 1..Len(ev) :
                  /\ ev[i].pos = i
                  /\ ev[i].id = results[i].citation_id
            /\ Len(ev) < Len(results)
               => SumTextLen(ev) + Snippet(results[Len(ev) + 1].text).n
                    > arg.max_context_length

\* the second result did not fit, the third would have: one entry is emitted
C22_Witness ==
    /\ Formatted
    /\ Len(arg.results) = 3 /\ Len(res[1]) = 1
    /\ res[1][1].text.n + Snippet(arg.results[3].text).n <= arg.max_context_length
    /\ res[1][1].text.n + Snippet(arg.results[2].text).n > arg.max_context_length

(***************************************************************************)
(* index_email / index_pdf on documents with short and long titles.        *)
(***************************************************************************)
TitleDocs == {"e_600", "e_600b", "p_doc", "p_long", "p_titled"}

NextTitle ==
    \/ \E d \in TitleDocs : StartIndex("w1", d)
                               /\ UNCHANGED <<pureVars, retrVars, clearVars, batch, readers>>
    \/ Probe("w1") /\ UNCHANGED <<pureVars, retrVars, clearVars, batch, readers>>
    \/ WriteFine("w1") /\ UNCHANGED <<pureVars, retrVars, clearVars, batch, readers>>
    \/ WriteCoarse("w1") /\ UNCHANGED <<pureVars, retrVars, clearVars, batch, readers>>
    \/ Fault("w1") /\ UNCHANGED <<pureVars, retrVars, clearVars, batch, readers>>

SpecTitle == Init /\ [][NextTitle]_vars

(***************************************************************************)
(* C23.  Every chunk stored in either collection, written by index_email   *)
(* or by index_pdf, has a source_title of at most 100 characters.          *)
(***************************************************************************)
C23_TitleMax ==
    /\ \A id \in DOMAIN fine : fine[id].source_title <= TITLE_MAX
    /\ \A id \in DOMAIN coarse : coarse[id].source_title <= TITLE_MAX

(***************************************************************************)
(* index_email / index_pdf alone, one call after the other, on documents   *)
(* some of which are versions of one email: e_twos, e_twoa and e_two carry *)
(* the message id m2 and one, two and three sentences.                     *)
(***************************************************************************)
VersionDocs == {"e_twos", "e_twoa", "e_two", "e_big", "p_doc"}

NextVersions ==
    \/ \E d \in VersionDocs : StartIndex("w1", d)
                                 /\ UNCHANGED <<pureVars, retrVars, clearVars, batch, readers>>
    \/ Probe("w1") /\ UNCHANGED <<pureVars, retrVars, clearVars, batch, readers>>
    \/ WriteFine("w1") /\ UNCHANGED <<pureVars, retrVars, clearVars, batch, readers>>
    \/ WriteCoarse("w1") /\ UNCHANGED <<pureVars, retrVars, clearVars, batch, readers>>
    \/ Fault("w1") /\ UNCHANGED <<pureVars, retrVars, clearVars, batch, readers>>

SpecVersions == Init /\ [][NextVersions]_vars

\* the document hashes of the chunks of a collection
HashesIn(coll) == {coll[id].doc_hash : id \in DOMAIN coll}

(***************************************************************************)
(* C25.  Fine before coarse: in every state index_email and index_pdf      *)
(* calls reach (returned with success or failure, or between two steps),   *)
(* every doc_hash with a chunk in the coarse collection has a chunk in the *)
(* fine collection.                                                        *)
(***************************************************************************)
C25_FineBeforeCoarse == HashesIn(coarse) \subseteq HashesIn(fine)

(***************************************************************************)
(* C27.  One version per email: all chunks a collection holds under one    *)
(* message id carry the same doc_hash, whichever way the store treats an   *)
(* add of an id that exists.                                               *)
(***************************************************************************)
C27_OneVersion ==
    /\ \A id1, id2 \in DOMAIN fine :
          fine[id1].ref = fine[id2].ref => fine[id1].doc_hash = fine[id2].doc_hash
    /\ \A id1, id2 \in DOMAIN coarse :
          coarse[id1].ref = coarse[id2].ref => coarse[id1].doc_hash = coarse[id2].doc_hash

(***************************************************************************)
(* knowledge_indexer.py: _get_document_hash on strings.  The hash is md5   *)
(* of `combined`; md5 is taken to be free of collisions, so two documents  *)
(* get the same doc_hash exactly when their combined strings are equal.    *)
(***************************************************************************)
\* line 204: combined = f"{source_id}:{content}"
combined(content, source_id) == source_id \o ":" \o content

HashIds == {"/docs/a", "/docs/a:2024", "/docs/b", "m1"}
HashContents == {Letters104, "2024:" \o Letters104, "Subject: " \o Letters104,
                 "a:" \o Letters104}
HashDocs == [source_id : HashIds, content : HashContents]

HashCall ==
    /\ arg.op = "hash"
    /\ res = <<>>
    /\ res' = <<combined(arg.a.content, arg.a.source_id),
                combined(arg.b.content, arg.b.source_id)>>
    /\ UNCHANGED arg

InitHash ==
    /\ storeMode = "skip" /\ fine = EmptyColl /\ coarse = EmptyColl
    /\ pc = [w \in Workers |-> "idle"] /\ cur = [w \in Workers |-> NoCall]
    /\ ret = [w \in Workers |-> NoCall] /\ done = [d \in DocNames |-> "none"]
    /\ ncalls = 0 /\ query_count = 0 /\ rlast = NoArg
    /\ dropped = {} /\ clr = NoClear /\ batch = NoBatch /\ readers = NoReaders
    /\ arg \in [op : {"hash"}, a : HashDocs, b : HashDocs]
    /\ res = <<>>

NextHash == HashCall /\ UNCHANGED <<indexVars, retrVars, clearVars, batch, readers>>

SpecHash == InitHash /\ [][NextHash]_vars

Hashed == arg.op = "hash" /\ res # <<>>

(***************************************************************************)
(* C26.  No cross-document dedup: the hash input of _get_document_hash is  *)
(* different for every two different (source_id, cleaned content) pairs,   *)
(* so the doc_hash the probe looks for is that of no other document.       *)
(***************************************************************************)
C26_HashInputInjective ==
    (Hashed /\ arg.a # arg.b) => res[1] # res[2]

(***************************************************************************)
(* _chunk_text: which sentences of the text the chunks hold.               *)
(***************************************************************************)
\* the sentences of the chunks, in the order of the chunks
RECURSIVE AllSents(_)
AllSents(chunks) ==
    IF chunks = <<>> THEN <<>> ELSE Head(chunks).sents \o AllSents(Tail(chunks))

\* len(" ".join(sentences[i] for i in idxs))
JoinedLen(sentences, idxs) ==
    SumSeq([j \in 1..Len(idxs) |-> sentences[idxs[j]]]) + Max(0, Len(idxs) - 1)

(***************************************************************************)
(* C29.  The chunker keeps order and loses only the tail: the sentences of *)
(* the chunks, in order, are the first m sentences of the text, each once; *)
(* every chunk is its sentences joined by single spaces; and the sentences *)
(* after the m-th, if any, are the final buffer, shorter than min_size.    *)
(***************************************************************************)
C29_OrderAndTail ==
    Chunked =>
        LET sentences == Sentences(arg.text)
            chunks == res[1]
            used == AllSents(chunks)
            m == Len(used)
        IN  /\ m <= Len(sentences)
            /\ used = [i \in 1..m |-> i]
            /\ \A c \in 1..Len(chunks) :
                  /\ chunks[c].sents # <<>>
                  /\ chunks[c].n = JoinedLen(sentences, chunks[c].sents)
            /\ m < Len(sentences)
               => JoinedLen(sentences, [i \in 1..(Len(sentences) - m) |-> m + i])
                    < ChunkMin(arg.chunk_type)

\* two chunks, the second begun by the sentence that did not fit into the
\* first, and a last sentence left out
C29_Witness ==
    /\ Chunked
    /\ Len(res[1]) = 2
    /\ Len(Sentences(arg.text)) = 3
    /\ res[1][1].sents = <<1>> /\ res[1][2].sents = <<2>>

(***************************************************************************)
(* retrieval.py: the query counter of HybridRetriever.retrieve under       *)
(* concurrent callers.  `self.query_count += 1` (line 307) is a load of    *)
(* the attribute, an addition and a store; another thread can run between  *)
(* the load and the store.  The rest of retrieve does not touch the        *)
(* counter; it returns results, the empty list of an empty query, or the   *)
(* empty list of the except clause.                                        *)
(***************************************************************************)
MaxRetrieves == 3
Outcomes == {"results", "empty", "failed"}

\* line 307, first half: load self.query_count
CountLoad(c) ==
    /\ readers.pc[c] = "idle"
    /\ readers.started < MaxRetrieves
    /\ readers' = [readers EXCEPT !.pc[c] = "store", !.seen[c] = query_count,
                                  !.started = @ + 1]
    /\ UNCHANGED query_count

\* line 307, second half: store the loaded value plus one
CountStore(c) ==
    /\ readers.pc[c] = "store"
    /\ query_count' = readers.seen[c] + 1
    /\ readers' = [readers EXCEPT !.pc[c] = "body"]

\* lines 309-389: the rest of the call, up to its return
RetrieveReturn(c, outcome) ==
    /\ readers.pc[c] = "body"
    /\ readers' = [readers EXCEPT !.pc[c] = "idle", !.returned = @ + 1,
                                  !.last = outcome]
    /\ UNCHANGED query_count

\* get_performance_stats()["total_queries"]
total_queries == query_count

NextCount ==
    \E c \in Callers :
        \/ CountLoad(c) /\ UNCHANGED <<indexVars, pureVars, rlast, clearVars, batch>>
        \/ CountStore(c) /\ UNCHANGED <<indexVars, pureVars, rlast, clearVars, batch>>
        \/ \E outcome \in Outcomes :
               RetrieveReturn(c, outcome)
               /\ UNCHANGED <<indexVars, pureVars, rlast, clearVars, batch>>

SpecCount == Init /\ [][NextCount]_vars

\* no call of retrieve is running
Quiet == \A c \in Callers : readers.pc[c] = "idle"

(***************************************************************************)
(* C30.  Query accounting: when n calls of retrieve have returned, from    *)
(* any number of concurrent callers and whatever they returned, and none   *)
(* is running, get_performance_stats reports total_queries = n.            *)
(***************************************************************************)
C30_QueryAccounting == Quiet => total_queries = readers.returned

====
